---- MODULE Spec2Model ----
(***************************************************************************)
(* Model of the translator: the Translation Client (translateText of the   *)
(* gemini service module) and the Interaction Controller (the App          *)
(* component of src/App.tsx, its state hooks and its event handlers).      *)
(*                                                                         *)
(* A text is a sequence of one-character strings, so that trim and the     *)
(* page concatenation are computed character by character.  Every         *)
(* asynchronous operation the program starts (a generateContent call, a    *)
(* FileReader read, a PDF extraction, a clipboard write, a setTimeout) is  *)
(* outstanding in a variable until the step that runs its continuation.    *)
(***************************************************************************)
EXTENDS Naturals, Sequences, FiniteSets, Bags, TLC

VARIABLES
    sourceLang,      \* useState<Language>('arabic')
    targetLang,      \* useState<Language>('english')
    inputMode,       \* useState<InputMode>('text')
    inputText,       \* useState<string>('')
    translatedText,  \* useState<string>('')
    isLoading,       \* useState<boolean>(false)
    error,           \* useState<string | null>(null); "null" stands for null
    fileName,        \* useState<string | null>(null); "null" stands for null
    copySuccess,     \* useState<boolean>(false)
    requests,        \* bag of generateContent calls awaiting their response
    readers,         \* number of FileReader reads not yet loaded or failed
    extractions,     \* number of reader.onload bodies awaiting the PDF library
    clipboardWrites, \* number of navigator.clipboard.writeText promises pending
    timers,          \* number of setTimeout(..., 2000) callbacks pending
    ret              \* a direct caller of translateText: its latest call and
                     \* the latest outcome (value or throw) it was given

vars == << sourceLang, targetLang, inputMode, inputText, translatedText,
           isLoading, error, fileName, copySuccess, requests, readers,
           extractions, clipboardWrites, timers, ret >>

ui == << sourceLang, targetLang, inputMode, inputText, translatedText,
         isLoading, error, fileName, copySuccess >>

async == << requests, readers, extractions, clipboardWrites, timers >>

----------------------------------------------------------------------------
(* Bounds *)

\* Most asynchronous operations outstanding at once.
MaxInFlight == 2

\* Most pages of an uploaded PDF.
MaxPages == 2

----------------------------------------------------------------------------
(* Values *)

Languages == {"arabic", "english"}

InputModes == {"text", "file"}

\* file.size > 100 * 1024 * 1024
SizeLimit == 100 * 1024 * 1024

PdfType == "application/pdf"

SizeErrorMsg == "File size exceeds 100MB limit."

TypeErrorMsg == "Only PDF files are supported."

ReadFailedMsg == "Failed to read file or PDF library is not loaded."

ExtractFailedMsg == "Failed to extract text from PDF. The file might be corrupted, password-protected, or contain only images."

ReaderErrorMsg == "An error occurred while reading the file."

TranslateFailedMsg == "Failed to translate text. Please check the API key and try again."

UnknownErrorMsg == "An unknown error occurred."

\* What the user types into the textarea.
TypedTexts == { <<>>, <<" ">>, <<"a">> }

\* response.text of a generateContent call that answered with a text.
RawResponses == { <<"\n">>, <<"b">>, <<"\n", "b", " ">>, <<"b", "\n", "b">> }

\* textContent.items of one page, each item given by its str.
PageItemLists == { <<>>, << <<"A">>, <<"B">> >> }

\* The file of e.target.files?.[0]; present = FALSE when none was chosen.
FileChoices ==
    [ present : BOOLEAN, name : {"doc.pdf"},
      size : {SizeLimit, SizeLimit + 1}, type : {PdfType, "text/plain"} ]

\* How a generateContent call ends: with a text, with a response that has no
\* text, or rejected (network error, service-side error).
Responses ==
    [ kind : {"text"}, text : RawResponses, cause : {""} ]
      \cup [ kind : {"missing"}, text : {<<>>},
             cause : {"TypeError: Cannot read properties of undefined"} ]
      \cup [ kind : {"network"}, text : {<<>>}, cause : {"fetch failed"} ]
      \cup [ kind : {"service"}, text : {<<>>}, cause : {"503 Service Unavailable"} ]

\* Nothing called and nothing returned yet.
NoReturn ==
    [ call |-> [ text |-> <<>>, sourceLang |-> "arabic", targetLang |-> "english" ],
      outcome |-> [ kind |-> "none", value |-> <<>>, message |-> "" ] ]

----------------------------------------------------------------------------
(* Strings *)

IsSpace(c) == c \in {" ", "\n"}

RECURSIVE TrimStart(_)
TrimStart(s) ==
    IF s = <<>> THEN s
    ELSE IF IsSpace(Head(s)) THEN TrimStart(Tail(s)) ELSE s

RECURSIVE TrimEnd(_)
TrimEnd(s) ==
    IF s = <<>> THEN s
    ELSE IF IsSpace(s[Len(s)]) THEN TrimEnd(SubSeq(s, 1, Len(s) - 1)) ELSE s

\* String.prototype.trim
Trim(s) == TrimEnd(TrimStart(s))

\* items.map(s => s.str).join(' ')
RECURSIVE JoinItems(_)
JoinItems(items) ==
    IF items = <<>> THEN <<>>
    ELSE IF Len(items) = 1 THEN Head(items)
    ELSE Head(items) \o <<" ">> \o JoinItems(Tail(items))

\* As FullTextAfter, with fullText += pageText + '\n'
RECURSIVE FullTextAfterOneNewline(_, _)
FullTextAfterOneNewline(pages, i) ==
    IF i = 0 THEN <<>>
    ELSE FullTextAfterOneNewline(pages, i - 1) \o JoinItems(pages[i]) \o <<"\n">>

\* The loop of reader.onload over pages 1..i: fullText += pageText + '\n\n'
RECURSIVE FullTextAfter(_, _)
FullTextAfter(pages, i) ==
    IF i = 0 THEN <<>>
    ELSE FullTextAfter(pages, i - 1) \o JoinItems(pages[i]) \o <<"\n", "\n">>

\* fullText when the loop has run over all pdf.numPages pages
BuildFullText(pages) == FullTextAfter(pages, Len(pages))

\* What pdf.js gives for a document: its pages in order, each a list of items.
Documents == UNION { [1..n -> PageItemLists] : n \in 0..MaxPages }

----------------------------------------------------------------------------
(* Translation Client: translateText *)

\* As translateTextCall, with the test !text in place of !text.trim()
translateTextCallNoTrim(text, src, tgt) ==
    [ issued |-> text # <<>>, value |-> <<>>,
      request |-> [ sourceLang |-> src, targetLang |-> tgt ] ]

\* The synchronous part of translateText, up to the await: either it returns
\* "" at once, or it issues one generateContent call.  The call is kept by the
\* two language names of its prompt; the prompt's text is not kept, since the
\* service is opaque and nothing reads the text once the call is out.
translateTextCall(text, src, tgt) ==
    IF Trim(text) = <<>>
    THEN [ issued |-> FALSE, value |-> <<>>,
           request |-> [ sourceLang |-> src, targetLang |-> tgt ] ]
    ELSE [ issued |-> TRUE, value |-> <<>>,
           request |-> [ sourceLang |-> src, targetLang |-> tgt ] ]

\* As translateTextSettle, returning response.text without .trim()
translateTextSettleNoTrim(resp) ==
    IF resp.kind = "text"
    THEN [ kind |-> "value", value |-> resp.text, message |-> "" ]
    ELSE [ kind |-> "throw", value |-> <<>>, message |-> TranslateFailedMsg ]

\* As translateTextSettle, with a catch that rethrows what it caught
translateTextSettleRawCause(resp) ==
    IF resp.kind = "text"
    THEN [ kind |-> "value", value |-> Trim(resp.text), message |-> "" ]
    ELSE [ kind |-> "throw", value |-> <<>>, message |-> resp.cause ]

\* The rest of translateText, once the call has ended with resp: inside the
\* try, response.text.trim() (which throws when there is no text); the catch
\* throws new Error(...) with the fixed message for whatever was thrown.
translateTextSettle(resp) ==
    IF resp.kind = "text"
    THEN [ kind |-> "value", value |-> Trim(resp.text), message |-> "" ]
    ELSE [ kind |-> "throw", value |-> <<>>, message |-> TranslateFailedMsg ]

\* The catch of handleTranslate: e instanceof Error ? e.message : unknown.
\* translateText only ever throws an Error.
CaughtMessage(outcome) ==
    IF outcome.kind = "throw" THEN outcome.message ELSE UnknownErrorMsg

InFlight ==
    BagCardinality(requests) + readers + extractions + clipboardWrites + timers

----------------------------------------------------------------------------
(* Interaction Controller *)

Init ==
    /\ sourceLang = "arabic"
    /\ targetLang = "english"
    /\ inputMode = "text"
    /\ inputText = <<>>
    /\ translatedText = <<>>
    /\ isLoading = FALSE
    /\ error = "null"
    /\ fileName = "null"
    /\ copySuccess = FALSE
    /\ requests = EmptyBag
    /\ readers = 0
    /\ extractions = 0
    /\ clipboardWrites = 0
    /\ timers = 0
    /\ ret = NoReturn

\* textarea onChange={(e) => setInputText(e.target.value)}; the textarea is
\* rendered only when inputMode === 'text'.
onChangeText(text) ==
    /\ inputMode = "text"
    /\ inputText' = text
    /\ UNCHANGED << sourceLang, targetLang, inputMode, translatedText, isLoading,
                    error, fileName, copySuccess, async, ret >>

\* As setInputModeClick, with setInputText('') on leaving the text view
setInputModeClickClearsText(mode) ==
    /\ inputMode' = mode
    /\ inputText' = IF mode = "file" THEN <<>> ELSE inputText
    /\ UNCHANGED << sourceLang, targetLang, translatedText, isLoading,
                    error, fileName, copySuccess, async, ret >>

\* The Text / PDF Document buttons: onClick={() => setInputMode(mode)}
setInputModeClick(mode) ==
    /\ inputMode' = mode
    /\ UNCHANGED << sourceLang, targetLang, inputText, translatedText, isLoading,
                    error, fileName, copySuccess, async, ret >>

\* As handleTranslate, without setError(null)
handleTranslateKeepsError ==
    /\ ~isLoading
    /\ inputText # <<>>
    /\ IF Trim(inputText) = <<>>
       THEN /\ translatedText' = <<>>
            /\ UNCHANGED << isLoading, requests >>
       ELSE LET call == translateTextCall(inputText, sourceLang, targetLang) IN
            /\ InFlight < MaxInFlight
            /\ IF call.issued
               THEN /\ isLoading' = TRUE
                    /\ translatedText' = <<>>
                    /\ requests' = requests (+) SetToBag({call.request})
               ELSE /\ isLoading' = FALSE
                    /\ translatedText' = call.value
                    /\ UNCHANGED requests
    /\ UNCHANGED << sourceLang, targetLang, inputMode, inputText, error, fileName,
                    copySuccess, readers, extractions, clipboardWrites, timers,
                    ret >>

\* As handleTranslate, without the early return on !inputText.trim()
handleTranslateNoBlankCheck ==
    /\ ~isLoading
    /\ inputText # <<>>
    /\ LET call == translateTextCall(inputText, sourceLang, targetLang) IN
       /\ InFlight < MaxInFlight
       /\ error' = "null"
       /\ IF call.issued
          THEN /\ isLoading' = TRUE
               /\ translatedText' = <<>>
               /\ requests' = requests (+) SetToBag({call.request})
          ELSE /\ isLoading' = FALSE
               /\ translatedText' = call.value
               /\ UNCHANGED requests
    /\ UNCHANGED << sourceLang, targetLang, inputMode, inputText, fileName,
                    copySuccess, readers, extractions, clipboardWrites, timers,
                    ret >>

\* handleTranslate up to its await.  The button is disabled while
\* isLoading || !inputText.
handleTranslate ==
    /\ ~isLoading
    /\ inputText # <<>>
    /\ IF Trim(inputText) = <<>>
       THEN /\ translatedText' = <<>>
            /\ UNCHANGED << isLoading, error, requests >>
       ELSE LET call == translateTextCall(inputText, sourceLang, targetLang) IN
            /\ InFlight < MaxInFlight
            /\ error' = "null"
            /\ IF call.issued
               THEN /\ isLoading' = TRUE
                    /\ translatedText' = <<>>
                    /\ requests' = requests (+) SetToBag({call.request})
               ELSE /\ isLoading' = FALSE
                    /\ translatedText' = call.value
                    /\ UNCHANGED requests
    /\ UNCHANGED << sourceLang, targetLang, inputMode, inputText, fileName,
                    copySuccess, readers, extractions, clipboardWrites, timers,
                    ret >>

\* As translateSettled, with a guard that drops the outcome of a call that is
\* not the only one outstanding or was made for another language pair
translateSettledLatestOnly(req, resp) ==
    /\ BagIn(req, requests)
    /\ requests' = requests (-) SetToBag({req})
    /\ IF BagCardinality(requests) > 1 \/ req.sourceLang # sourceLang
       THEN UNCHANGED << translatedText, error, isLoading >>
       ELSE /\ LET outcome == translateTextSettle(resp) IN
               IF outcome.kind = "value"
               THEN /\ translatedText' = outcome.value
                    /\ UNCHANGED error
               ELSE /\ error' = CaughtMessage(outcome)
                    /\ UNCHANGED translatedText
            /\ isLoading' = FALSE
    /\ UNCHANGED << sourceLang, targetLang, inputMode, inputText, fileName,
                    copySuccess, readers, extractions, clipboardWrites, timers,
                    ret >>

\* As translateSettled, with setIsLoading(false) at the end of the try only
translateSettledNoFinally(req, resp) ==
    /\ BagIn(req, requests)
    /\ requests' = requests (-) SetToBag({req})
    /\ LET outcome == translateTextSettle(resp) IN
       IF outcome.kind = "value"
       THEN /\ translatedText' = outcome.value
            /\ isLoading' = FALSE
            /\ UNCHANGED error
       ELSE /\ error' = CaughtMessage(outcome)
            /\ UNCHANGED << translatedText, isLoading >>
    /\ UNCHANGED << sourceLang, targetLang, inputMode, inputText, fileName,
                    copySuccess, readers, extractions, clipboardWrites, timers,
                    ret >>

\* handleTranslate after its await: the call req ended with resp.
translateSettled(req, resp) ==
    /\ BagIn(req, requests)
    /\ requests' = requests (-) SetToBag({req})
    /\ LET outcome == translateTextSettle(resp) IN
       IF outcome.kind = "value"
       THEN /\ translatedText' = outcome.value
            /\ UNCHANGED error
       ELSE /\ error' = CaughtMessage(outcome)
            /\ UNCHANGED translatedText
    /\ isLoading' = FALSE
    /\ UNCHANGED << sourceLang, targetLang, inputMode, inputText, fileName,
                    copySuccess, readers, extractions, clipboardWrites, timers,
                    ret >>

\* The four state values handleSwapLanguages reads and sets.
Swappable ==
    [ sourceLang |-> sourceLang, targetLang |-> targetLang,
      inputText |-> inputText, translatedText |-> translatedText ]

\* As SwapFields, without the two text setters
SwapFieldsLangsOnly(st) ==
    [ sourceLang |-> st.targetLang, targetLang |-> st.sourceLang,
      inputText |-> st.inputText, translatedText |-> st.translatedText ]

\* As SwapFields, with setTranslatedText('')
SwapFieldsClearsResult(st) ==
    [ sourceLang |-> st.targetLang, targetLang |-> st.sourceLang,
      inputText |-> st.translatedText, translatedText |-> <<>> ]

\* As SwapFields, with setSourceLang(targetLang) only
SwapFieldsSourceOnly(st) ==
    [ sourceLang |-> st.targetLang, targetLang |-> st.targetLang,
      inputText |-> st.translatedText, translatedText |-> st.inputText ]

\* The four setters of handleSwapLanguages, applied to the values st it closed over.
SwapFields(st) ==
    [ sourceLang |-> st.targetLang, targetLang |-> st.sourceLang,
      inputText |-> st.translatedText, translatedText |-> st.inputText ]

handleSwapLanguages ==
    /\ sourceLang' = SwapFields(Swappable).sourceLang
    /\ targetLang' = SwapFields(Swappable).targetLang
    /\ inputText' = SwapFields(Swappable).inputText
    /\ translatedText' = SwapFields(Swappable).translatedText
    /\ UNCHANGED << inputMode, isLoading, error, fileName, copySuccess, async,
                    ret >>

\* handleCopy; its button is rendered only when translatedText is non-empty.
handleCopy ==
    /\ translatedText # <<>>
    /\ InFlight < MaxInFlight
    /\ clipboardWrites' = clipboardWrites + 1
    /\ UNCHANGED << ui, requests, readers, extractions, timers, ret >>

\* As clipboardWritten, without the setTimeout
clipboardWrittenNoTimer ==
    /\ clipboardWrites > 0
    /\ clipboardWrites' = clipboardWrites - 1
    /\ copySuccess' = TRUE
    /\ UNCHANGED << sourceLang, targetLang, inputMode, inputText, translatedText,
                    isLoading, error, fileName, requests, readers, extractions,
                    timers, ret >>

\* .then(() => { setCopySuccess(true); setTimeout(..., 2000) })
clipboardWritten ==
    /\ clipboardWrites > 0
    /\ clipboardWrites' = clipboardWrites - 1
    /\ copySuccess' = TRUE
    /\ timers' = timers + 1
    /\ UNCHANGED << sourceLang, targetLang, inputMode, inputText, translatedText,
                    isLoading, error, fileName, requests, readers, extractions,
                    ret >>

\* writeText rejected (no permission, document not focused): no handler runs.
clipboardRejected ==
    /\ clipboardWrites > 0
    /\ clipboardWrites' = clipboardWrites - 1
    /\ UNCHANGED << ui, requests, readers, extractions, timers, ret >>

\* () => setCopySuccess(false), 2000 ms after clipboardWritten.  All timers
\* have the same delay, so they fire in the order they were set.
copyTimeout ==
    /\ timers > 0
    /\ timers' = timers - 1
    /\ copySuccess' = FALSE
    /\ UNCHANGED << sourceLang, targetLang, inputMode, inputText, translatedText,
                    isLoading, error, fileName, requests, readers, extractions,
                    clipboardWrites, ret >>

\* As ValidationError, with the type check before the size check
ValidationErrorTypeFirst(file) ==
    IF file.type # PdfType THEN TypeErrorMsg
    ELSE IF file.size > SizeLimit THEN SizeErrorMsg
    ELSE "null"

\* The two checks of handleFileChange, in their order.
ValidationError(file) ==
    IF file.size > SizeLimit THEN SizeErrorMsg
    ELSE IF file.type # PdfType THEN TypeErrorMsg
    ELSE "null"

\* As handleFileChange, with the four resets after the two checks
handleFileChangeValidateFirst(file) ==
    /\ inputMode = "file"
    /\ IF ~file.present
       THEN UNCHANGED << ui, readers >>
       ELSE IF ValidationError(file) # "null"
       THEN /\ error' = ValidationError(file)
            /\ UNCHANGED << sourceLang, targetLang, inputMode, inputText,
                            translatedText, isLoading, fileName, copySuccess,
                            readers >>
       ELSE /\ InFlight < MaxInFlight
            /\ inputText' = <<>>
            /\ translatedText' = <<>>
            /\ error' = "null"
            /\ fileName' = file.name
            /\ isLoading' = TRUE
            /\ readers' = readers + 1
            /\ UNCHANGED << sourceLang, targetLang, inputMode, copySuccess >>
    /\ UNCHANGED << requests, extractions, clipboardWrites, timers, ret >>

\* handleFileChange; the file input is rendered only when inputMode is 'file'.
handleFileChange(file) ==
    /\ inputMode = "file"
    /\ IF ~file.present
       THEN UNCHANGED << ui, readers >>
       ELSE /\ inputText' = <<>>
            /\ translatedText' = <<>>
            /\ IF ValidationError(file) # "null"
               THEN /\ error' = ValidationError(file)
                    /\ fileName' = "null"
                    /\ UNCHANGED << isLoading, readers >>
               ELSE /\ InFlight < MaxInFlight
                    /\ error' = "null"
                    /\ fileName' = file.name
                    /\ isLoading' = TRUE
                    /\ readers' = readers + 1
            /\ UNCHANGED << sourceLang, targetLang, inputMode, copySuccess >>
    /\ UNCHANGED << requests, extractions, clipboardWrites, timers, ret >>

\* reader.onload up to its first await.  hasResult is event.target?.result,
\* hasLib is window.pdfjsLib, which a script outside the component sets.
readerOnload(hasResult, hasLib) ==
    /\ readers > 0
    /\ readers' = readers - 1
    /\ IF ~hasResult \/ ~hasLib
       THEN /\ error' = ReadFailedMsg
            /\ isLoading' = FALSE
            /\ UNCHANGED extractions
       ELSE /\ extractions' = extractions + 1
            /\ UNCHANGED << error, isLoading >>
    /\ UNCHANGED << sourceLang, targetLang, inputMode, inputText, translatedText,
                    fileName, copySuccess, requests, clipboardWrites, timers,
                    ret >>

readerOnerror ==
    /\ readers > 0
    /\ readers' = readers - 1
    /\ error' = ReaderErrorMsg
    /\ isLoading' = FALSE
    /\ UNCHANGED << sourceLang, targetLang, inputMode, inputText, translatedText,
                    fileName, copySuccess, requests, extractions,
                    clipboardWrites, timers, ret >>

\* The try of reader.onload ran to its end over the document doc.  The awaits
\* inside the loop touch only the locals pdf, page, textContent and fullText,
\* so the loop is one step here.
extractDone(doc) ==
    /\ extractions > 0
    /\ extractions' = extractions - 1
    /\ inputText' = Trim(BuildFullText(doc))
    /\ inputMode' = "text"
    /\ isLoading' = FALSE
    /\ UNCHANGED << sourceLang, targetLang, translatedText, error, fileName,
                    copySuccess, requests, readers, clipboardWrites, timers,
                    ret >>

\* As extractFailed, with setInputMode('text') in the finally
extractFailedSwitchesMode ==
    /\ extractions > 0
    /\ extractions' = extractions - 1
    /\ error' = ExtractFailedMsg
    /\ inputMode' = "text"
    /\ isLoading' = FALSE
    /\ UNCHANGED << sourceLang, targetLang, inputText, translatedText,
                    fileName, copySuccess, requests, readers, clipboardWrites,
                    timers, ret >>

\* As extractFailed, with setIsLoading(false) at the end of the try only
extractFailedNoFinally ==
    /\ extractions > 0
    /\ extractions' = extractions - 1
    /\ error' = ExtractFailedMsg
    /\ UNCHANGED << sourceLang, targetLang, inputMode, inputText, translatedText,
                    isLoading, fileName, copySuccess, requests, readers,
                    clipboardWrites, timers, ret >>

\* getDocument, getPage or getTextContent threw: catch, then finally.
extractFailed ==
    /\ extractions > 0
    /\ extractions' = extractions - 1
    /\ error' = ExtractFailedMsg
    /\ isLoading' = FALSE
    /\ UNCHANGED << sourceLang, targetLang, inputMode, inputText, translatedText,
                    fileName, copySuccess, requests, readers, clipboardWrites,
                    timers, ret >>

Next ==
    \/ \E text \in TypedTexts : onChangeText(text)
    \/ \E mode \in InputModes : setInputModeClick(mode)
    \/ handleTranslate
    \/ \E req \in BagToSet(requests), resp \in Responses : translateSettled(req, resp)
    \/ handleSwapLanguages
    \/ handleCopy
    \/ clipboardWritten
    \/ clipboardRejected
    \/ copyTimeout
    \/ \E file \in FileChoices : handleFileChange(file)
    \/ \E hasResult \in BOOLEAN, hasLib \in BOOLEAN : readerOnload(hasResult, hasLib)
    \/ readerOnerror
    \/ \E doc \in Documents : extractDone(doc)
    \/ extractFailed

Spec == Init /\ [][Next]_vars

\* A timer that is set fires: the browser runs every setTimeout callback.
FairSpec == Spec /\ WF_vars(copyTimeout)

\* A step that ends a translation, a read or an extraction.
Completes ==
    \/ \E req \in BagToSet(requests), resp \in Responses : translateSettled(req, resp)
    \/ \E hasResult \in BOOLEAN, hasLib \in BOOLEAN : readerOnload(hasResult, hasLib)
    \/ readerOnerror
    \/ \E doc \in Documents : extractDone(doc)
    \/ extractFailed

\* While a generateContent call, a FileReader read or an extraction is
\* outstanding, one of them ends: the service answers or rejects, the reader
\* loads or fails, the PDF library finishes or throws.
LiveSpec == Spec /\ WF_vars(Completes)

\* The upload flow on its own: the user only switches mode and chooses files.
NextUpload ==
    \/ \E mode \in InputModes : setInputModeClick(mode)
    \/ \E file \in FileChoices : handleFileChange(file)
    \/ \E hasResult \in BOOLEAN, hasLib \in BOOLEAN : readerOnload(hasResult, hasLib)
    \/ readerOnerror
    \/ \E doc \in Documents : extractDone(doc)
    \/ extractFailed

SpecUpload == Init /\ [][NextUpload]_vars

----------------------------------------------------------------------------
(* translateText called directly, as by a test of the service module *)

clientCall(text, src, tgt) ==
    LET call == translateTextCall(text, src, tgt) IN
    /\ IF call.issued
       THEN /\ InFlight < MaxInFlight
            /\ requests' = requests (+) SetToBag({call.request})
            /\ ret' = [ ret EXCEPT !.call =
                          [ text |-> text, sourceLang |-> src, targetLang |-> tgt ] ]
       ELSE /\ requests' = requests
            /\ ret' = [ call |-> [ text |-> text, sourceLang |-> src,
                                   targetLang |-> tgt ],
                        outcome |-> [ kind |-> "value", value |-> call.value,
                                      message |-> "" ] ]
    /\ UNCHANGED << ui, readers, extractions, clipboardWrites, timers >>

clientSettled(req, resp) ==
    /\ BagIn(req, requests)
    /\ requests' = requests (-) SetToBag({req})
    /\ ret' = [ ret EXCEPT !.outcome = translateTextSettle(resp) ]
    /\ UNCHANGED << ui, readers, extractions, clipboardWrites, timers >>

NextClient ==
    \/ \E text \in TypedTexts, src \in Languages, tgt \in Languages :
          clientCall(text, src, tgt)
    \/ \E req \in BagToSet(requests), resp \in Responses : clientSettled(req, resp)

SpecClient == Init /\ [][NextClient]_vars

----------------------------------------------------------------------------
(* Properties *)

\* A text with no character other than whitespace (the empty text included).
IsBlank(text) == \A i \in 1..Len(text) : IsSpace(text[i])

\* r is raw with whitespace, and nothing else, taken off its two ends.
IsTrimOf(r, raw) ==
    \E i \in 0..Len(raw) :
       /\ \A k \in 1..i : IsSpace(raw[k])
       /\ \E j \in 0..(Len(raw) - i) :
             /\ \A k \in (Len(raw) - j + 1)..Len(raw) : IsSpace(raw[k])
             /\ r = SubSeq(raw, i + 1, Len(raw) - j)
             /\ r # <<>> => ~IsSpace(r[1]) /\ ~IsSpace(r[Len(r)])

\* The texts of seq joined with sep between consecutive ones.
RECURSIVE JoinWith(_, _)
JoinWith(seq, sep) ==
    IF seq = <<>> THEN <<>>
    ELSE IF Len(seq) = 1 THEN seq[1]
    ELSE seq[1] \o sep \o JoinWith(Tail(seq), sep)

\* The per-page texts of a document.
PageTexts(doc) == [ i \in 1..Len(doc) |-> JoinItems(doc[i]) ]

BlankLine == <<"\n", "\n">>

ReturnedEmpty == [ kind |-> "value", value |-> <<>>, message |-> "" ]

\* C1: a call of translateText with an empty or whitespace-only text, for any
\* language pair, returns the empty string and issues no generateContent call.
C1_BlankTextReturnsEmpty ==
    [][ \A text \in TypedTexts, src \in Languages, tgt \in Languages :
           (IsBlank(text) /\ clientCall(text, src, tgt))
              => (ret'.outcome = ReturnedEmpty /\ requests' = requests) ]_vars

\* A whitespace-only text was passed, "" came back and no call is out.
C1_Witness ==
    /\ ret.call.text = <<" ">>
    /\ ret.outcome = ReturnedEmpty
    /\ requests = EmptyBag

\* C2 as claimed: in the state right after a failed translate is handled,
\* isLoading is false, translatedText is empty and errorMessage is non-empty,
\* whatever happened while the request was in flight.
C2_FailureLeavesResultEmpty ==
    [][ \A req \in BagToSet(requests), resp \in Responses :
           (resp.kind # "text" /\ translateSettled(req, resp))
              => (isLoading' = FALSE /\ translatedText' = <<>> /\ error' # "null") ]_vars

\* C2 amended: in the state right after a failed translate is handled,
\* isLoading is false, errorMessage is non-empty and translatedText is what it
\* was just before the failure was handled (the handling does not write it).
C2_FailureKeepsResult ==
    [][ \A req \in BagToSet(requests), resp \in Responses :
           (resp.kind # "text" /\ translateSettled(req, resp))
              => (isLoading' = FALSE /\ translatedText' = translatedText
                  /\ error' # "null") ]_vars

\* A failure was handled after a swap moved the input into translatedText.
C2_Witness ==
    /\ error = TranslateFailedMsg
    /\ ~isLoading
    /\ requests = EmptyBag
    /\ translatedText = <<"a">>
    /\ sourceLang = "english"

\* C3 as claimed: at most one translation request and at most one file read or
\* extraction is in flight in every reachable state.
C3_AtMostOneInFlight ==
    /\ BagCardinality(requests) <= 1
    /\ readers + extractions <= 1

\* C4: a swap step, in any state, exchanges sourceLang with targetLang and
\* inputText with translatedText, and changes no other state field.
C4_SwapExchanges ==
    [][ handleSwapLanguages
           => /\ sourceLang' = targetLang
              /\ targetLang' = sourceLang
              /\ inputText' = translatedText
              /\ translatedText' = inputText
              /\ UNCHANGED << isLoading, error, inputMode, fileName, copySuccess >> ]_vars

\* A swap acted while a translation was in flight: the input text moved to
\* translatedText under the new language pair.
C4_Witness ==
    /\ sourceLang = "english"
    /\ targetLang = "arabic"
    /\ isLoading
    /\ requests # EmptyBag
    /\ translatedText = <<"a">>
    /\ inputText = <<>>

\* C5: after a swap step, a second swap (always enabled, and run on the state
\* the first one left) gives back the languages and the texts the first swap
\* started from.
C5_SwapInvolution ==
    [][ handleSwapLanguages => SwapFields(Swappable') = Swappable ]_vars

\* A swap has acted and left texts that differ, so the second swap moves them.
C5_Witness ==
    /\ sourceLang = "english"
    /\ inputText = <<"b">>
    /\ translatedText = <<"a">>

\* C6: choosing a file over 100 MB, or one that is not a PDF, leaves inputText
\* empty, starts no read or extraction, leaves isLoading as it was and
\* fileName null, and sets the size error when the file is over 100 MB, the
\* type error when it is within the limit but not a PDF.
C6_RejectedFile ==
    [][ \A file \in FileChoices :
           ( /\ file.present
             /\ (file.size > 104857600 \/ file.type # "application/pdf")
             /\ handleFileChange(file) )
              => /\ inputText' = <<>>
                 /\ readers' = readers
                 /\ extractions' = extractions
                 /\ isLoading' = isLoading
                 /\ fileName' = "null"
                 /\ error' = IF file.size > 104857600 THEN SizeErrorMsg
                             ELSE TypeErrorMsg ]_vars

\* A file was rejected for its size while a translation was in flight.
C6_Witness ==
    /\ error = SizeErrorMsg
    /\ fileName = "null"
    /\ inputText = <<>>
    /\ isLoading
    /\ readers + extractions = 0

\* C7 as claimed: the copy action sets copy-feedback in its own step, and the
\* timeout sets it back.
C7_FeedbackInCopyStep ==
    [][ /\ handleCopy => copySuccess' = TRUE
        /\ copyTimeout => copySuccess' = FALSE ]_vars

\* C7 amended: the copy action starts a clipboard write and leaves
\* copy-feedback as it is; the step in which the write succeeds sets
\* copy-feedback and starts one 2000 ms timer; the step in which a timer
\* elapses clears copy-feedback; none of these steps touches the translation
\* state; copy-feedback is set only while a timer is pending, and never stays
\* set forever.
C7_FeedbackAfterWrite ==
    /\ [][ /\ handleCopy
              => (copySuccess' = copySuccess /\ clipboardWrites' = clipboardWrites + 1)
           /\ clipboardWritten
              => (copySuccess' = TRUE /\ timers' = timers + 1)
           /\ copyTimeout => copySuccess' = FALSE
           /\ (handleCopy \/ clipboardWritten \/ copyTimeout)
              => UNCHANGED << isLoading, translatedText, error, requests >> ]_vars
    /\ [](copySuccess => timers > 0)
    /\ (copySuccess ~> ~copySuccess)

\* Copy-feedback is on while a translation is in flight.
C7_Witness ==
    /\ copySuccess
    /\ timers = 1
    /\ requests # EmptyBag
    /\ isLoading

\* C8 as claimed: the text built before trimming is the page texts joined
\* with "\n\n" and nothing after the last page; inputText is that text trimmed.
C8_JoinedNoTrailer ==
    [][ \A doc \in Documents :
           extractDone(doc)
              => /\ BuildFullText(doc) = JoinWith(PageTexts(doc), BlankLine)
                 /\ inputText' = Trim(BuildFullText(doc)) ]_vars

\* C8 amended: the text built before trimming is the page texts, in page
\* order, each followed by "\n\n" (the pages joined with "\n\n", then one more
\* "\n\n" when there is a page); inputText is set to that text trimmed, which
\* is the trim of the pages joined with "\n\n".
C8_JoinedWithTrailer ==
    [][ \A doc \in Documents :
           extractDone(doc)
              => LET joined == JoinWith(PageTexts(doc), BlankLine) IN
                 /\ BuildFullText(doc)
                      = joined \o (IF Len(doc) = 0 THEN <<>> ELSE BlankLine)
                 /\ IsTrimOf(inputText', BuildFullText(doc))
                 /\ IsTrimOf(inputText', joined) ]_vars

\* A two-page document was extracted.
C8_Witness ==
    /\ inputText = <<"A", " ", "B", "\n", "\n", "A", " ", "B">>
    /\ inputMode = "text"
    /\ ~isLoading

\* C9: when a call started for a non-whitespace text ends with a response
\* text, translatedText is set to that text with the whitespace at its two
\* ends removed and nothing else changed.
C9_ResultIsTrimmedResponse ==
    [][ \A req \in BagToSet(requests), resp \in Responses :
           (resp.kind = "text" /\ translateSettled(req, resp))
              => IsTrimOf(translatedText', resp.text) ]_vars

\* A response with an inner newline was stored, the ends trimmed at most.
C9_Witness ==
    /\ translatedText = <<"b", "\n", "b">>
    /\ ~isLoading
    /\ error = "null"
    /\ requests = EmptyBag

\* C10: however the call fails (no text in the response, network error,
\* service error), errorMessage is set to the one fixed message, never to
\* the cause.
C10_OneFailureMessage ==
    [][ \A req \in BagToSet(requests), resp \in Responses :
           (resp.kind # "text" /\ translateSettled(req, resp))
              => (error' = TranslateFailedMsg /\ error' # resp.cause) ]_vars

\* A failed translation was handled and nothing else is running.
C10_Witness ==
    /\ error = TranslateFailedMsg
    /\ ~isLoading
    /\ InFlight = 0
    /\ translatedText = <<>>
    /\ inputText = <<"a">>

\* The translations, reads and extractions that are outstanding.
Outstanding == BagCardinality(requests) + readers + extractions

\* C11: isLoading is never true with no translation, read or extraction
\* outstanding; when outstanding operations end, every state with isLoading
\* true (after an error or not) is followed by a state with isLoading false;
\* and with isLoading false a translation of a non-empty inputText, and in
\* file mode an upload, can start again.
C11_ErrorsLeaveRetryable ==
    /\ [](isLoading => Outstanding > 0)
    /\ (isLoading ~> ~isLoading)
    /\ []((~isLoading /\ inputText # <<>> /\ InFlight < MaxInFlight)
             => ENABLED handleTranslate)
    /\ []((inputMode = "file" /\ InFlight < MaxInFlight)
             => \A file \in FileChoices : ENABLED handleFileChange(file))

\* An extraction failed, its error is shown and nothing is loading.
C11_Witness ==
    /\ error = ExtractFailedMsg
    /\ ~isLoading
    /\ Outstanding = 0
    /\ inputMode = "file"

\* The file is chosen and fails one of the two checks.
Rejected(file) ==
    file.present /\ (file.size > 104857600 \/ file.type # "application/pdf")

\* C12 as claimed: choosing a file that fails validation leaves the prior
\* inputText and translatedText unchanged.
C12_RejectionKeepsTexts ==
    [][ \A file \in FileChoices :
           (Rejected(file) /\ handleFileChange(file))
              => (inputText' = inputText /\ translatedText' = translatedText) ]_vars

\* C12 amended: choosing a file that fails validation clears inputText,
\* translatedText and fileName and sets errorMessage to the size or the type
\* error; it changes nothing else and starts nothing.
C12_RejectionClearsTexts ==
    [][ \A file \in FileChoices :
           (Rejected(file) /\ handleFileChange(file))
              => /\ inputText' = <<>>
                 /\ translatedText' = <<>>
                 /\ fileName' = "null"
                 /\ error' \in {SizeErrorMsg, TypeErrorMsg}
                 /\ UNCHANGED << sourceLang, targetLang, inputMode, isLoading,
                                 copySuccess, async >> ]_vars

\* A file was rejected for its type; both texts are empty.
C12_Witness ==
    /\ error = TypeErrorMsg
    /\ inputText = <<>>
    /\ translatedText = <<>>
    /\ fileName = "null"
    /\ inputMode = "file"

\* The call req overlaps another one: a second call is outstanding with it,
\* or it was made before a swap and a state for the other pair is shown, or
\* something that ran meanwhile has already cleared isLoading.
Overlapped(req) ==
    \/ BagCardinality(requests) > 1
    \/ req.sourceLang # sourceLang
    \/ ~isLoading

\* C13: the step that handles the end of a call writes that call's outcome
\* (translatedText on success, errorMessage on failure) also when the call
\* overlaps another one, so whichever call ends last leaves its outcome.
C13_StaleOutcomeWritten ==
    [][ \A req \in BagToSet(requests), resp \in Responses :
           (Overlapped(req) /\ translateSettled(req, resp))
              => /\ resp.kind = "text" => IsTrimOf(translatedText', resp.text)
                 /\ resp.kind # "text" => error' = TranslateFailedMsg
                 /\ isLoading' = FALSE
                 /\ BagCardinality(requests') = BagCardinality(requests) - 1 ]_vars

\* A call has ended and left its result while a call made before a swap,
\* for the other language pair, is still outstanding.
C13_Witness ==
    /\ ~isLoading
    /\ translatedText = <<"b">>
    /\ BagCardinality(requests) = 1
    /\ \E req \in BagToSet(requests) : req.sourceLang # sourceLang

\* C14: a translate step on an inputText that is not blank clears
\* errorMessage and translatedText, sets isLoading and puts exactly one call
\* out, in that one step; the step that handles the end of a call, with a
\* text or with a failure, leaves isLoading false.
C14_LoadingBracketsRequest ==
    [][ /\ (handleTranslate /\ ~IsBlank(inputText))
              => /\ error' = "null"
                 /\ translatedText' = <<>>
                 /\ isLoading' = TRUE
                 /\ \E req \in BagToSet(requests') :
                       requests' = requests (+) SetToBag({req})
        /\ \A req \in BagToSet(requests), resp \in Responses :
              translateSettled(req, resp) => isLoading' = FALSE ]_vars

\* A translation started over a shown result: it is loading, one call is
\* out, and error and result are cleared.
C14_Witness ==
    /\ isLoading
    /\ BagCardinality(requests) = 1
    /\ Outstanding = 1
    /\ error = "null"
    /\ translatedText = <<>>
    /\ inputText = <<"b">>

\* C15 as claimed: a translate step on a blank inputText issues no call, does
\* not set isLoading and leaves errorMessage non-empty.
C15_BlankInputShowsError ==
    [][ (handleTranslate /\ IsBlank(inputText))
           => (requests' = requests /\ isLoading' = isLoading /\ error' # "null") ]_vars

\* C15 amended: a translate step is possible only on a non-empty inputText
\* (the button is disabled on an empty one); on a whitespace-only inputText
\* it issues no call, does not set isLoading, leaves errorMessage as it was
\* (no message is shown for it) and sets translatedText to "".
C15_BlankInputShowsNothing ==
    [][ /\ handleTranslate => inputText # <<>>
        /\ (handleTranslate /\ IsBlank(inputText))
              => /\ requests' = requests
                 /\ isLoading' = isLoading
                 /\ error' = error
                 /\ translatedText' = <<>> ]_vars

\* Whitespace was typed over a failed translation; the old error is still
\* the one shown and nothing is loading.
C15_Witness ==
    /\ inputText = <<" ">>
    /\ translatedText = <<>>
    /\ ~isLoading
    /\ error = TranslateFailedMsg
    /\ InFlight = 0

\* C16: the step in which an extraction throws sets the one extraction
\* error, leaves inputText and inputMode as they were and isLoading false;
\* the step in which the read fails (reader.onerror, or a load with no
\* result or no PDF library) sets its read error and leaves isLoading false.
C16_ExtractionAndReadFailures ==
    [][ /\ extractFailed
              => /\ error' = "Failed to extract text from PDF. The file might be corrupted, password-protected, or contain only images."
                 /\ inputText' = inputText
                 /\ inputMode' = inputMode
                 /\ isLoading' = FALSE
        /\ readerOnerror
              => /\ error' = "An error occurred while reading the file."
                 /\ inputText' = inputText
                 /\ isLoading' = FALSE
        /\ \A hasResult \in BOOLEAN, hasLib \in BOOLEAN :
              (~(hasResult /\ hasLib) /\ readerOnload(hasResult, hasLib))
                 => /\ error' = "Failed to read file or PDF library is not loaded."
                    /\ inputText' = inputText
                    /\ isLoading' = FALSE ]_vars

\* The extraction of an accepted file threw: still in file mode, no text.
C16_Witness ==
    /\ error = ExtractFailedMsg
    /\ inputMode = "file"
    /\ inputText = <<>>
    /\ fileName = "doc.pdf"
    /\ ~isLoading

\* C17: a mode-button step sets inputMode to the mode clicked and changes
\* nothing else.
C17_SwitchModeOnly ==
    [][ \A mode \in InputModes :
           setInputModeClick(mode)
              => /\ inputMode' = mode
                 /\ UNCHANGED << inputText, translatedText, sourceLang, targetLang,
                                 isLoading, error, fileName, copySuccess, async >> ]_vars

\* Text was typed, and the file view is shown with the text kept.
C17_Witness ==
    /\ inputMode = "file"
    /\ inputText = <<"a">>
    /\ fileName = "null"
    /\ error = "null"

\* C18 as claimed: isLoading is true exactly when a translation, a read or
\* an extraction is outstanding.
C18_LoadingIffOutstanding == isLoading <=> Outstanding > 0

\* C19: sourceLang and targetLang are the two supported languages, one each;
\* every call that is out was made for two different languages; and a step
\* that changes either language is a swap step.
C19_LanguagesDiffer ==
    /\ []( /\ sourceLang \in {"arabic", "english"}
           /\ targetLang \in {"arabic", "english"}
           /\ sourceLang # targetLang
           /\ \A req \in BagToSet(requests) : req.sourceLang # req.targetLang )
    /\ [][ (sourceLang' # sourceLang \/ targetLang' # targetLang)
              => handleSwapLanguages ]_vars

\* After a swap, a call is out for english to arabic.
C19_Witness ==
    /\ sourceLang = "english"
    /\ targetLang = "arabic"
    /\ \E req \in BagToSet(requests) :
          req.sourceLang = "english" /\ req.targetLang = "arabic"

====
